---- MODULE Spec2Model ----
(***************************************************************************)
(* gocommit: a CLI that reads the staged diff, asks a text-generation API  *)
(* for three candidate commit messages, lets the operator pick and edit    *)
(* one in a terminal picker/editor and runs `git commit -m` with it.       *)
(*                                                                         *)
(* Go strings are modelled as sequences of bytes and []rune values as      *)
(* sequences of runes.  A byte or a rune is written as a one-element       *)
(* string token; the two bytes of the UTF-8 encoding of "é" are "C3" and   *)
(* "A9", a byte that starts no valid encoding is "FF".                     *)
(***************************************************************************)
EXTENDS Naturals, Integers, Sequences, FiniteSets, TLC

(***************************************************************************)
(* Bounds of the model.                                                    *)
(***************************************************************************)
\* longest rune buffer the editor is driven to by insertions
MaxLen == 3
\* largest number of spare elements an allocation of a rune slice may carry
MaxSlack == 0

(***************************************************************************)
(* Bytes, runes and the conversions between string and []rune.             *)
(***************************************************************************)
NL == "\n"
SP == " "
NUL == "NUL"
RuneError == "FFFD"

\* unicode/utf8 encoding of one rune (string(r), string([]rune))
EncodeRune(r) ==
    IF r = "é" THEN <<"C3", "A9">>
    ELSE IF r = RuneError THEN <<"EF", "BF", "BD">>
    ELSE <<r>>

RECURSIVE Encode(_)
\* string(editedMsg): the concatenated encodings of the runes
Encode(rs) ==
    IF rs = <<>> THEN <<>> ELSE EncodeRune(Head(rs)) \o Encode(Tail(rs))

IsAscii(b) == b \notin {"C3", "A9", "EF", "BF", "BD", "FF"}

RECURSIVE Decode(_)
\* []rune(s): decodes UTF-8, an invalid byte becomes U+FFFD
Decode(bs) ==
    IF bs = <<>> THEN <<>>
    ELSE IF IsAscii(Head(bs)) THEN <<Head(bs)>> \o Decode(Tail(bs))
    ELSE IF Len(bs) >= 2 /\ bs[1] = "C3" /\ bs[2] = "A9"
         THEN <<"é">> \o Decode(SubSeq(bs, 3, Len(bs)))
    ELSE IF Len(bs) >= 3 /\ bs[1] = "EF" /\ bs[2] = "BF" /\ bs[3] = "BD"
         THEN <<RuneError>> \o Decode(SubSeq(bs, 4, Len(bs)))
    ELSE <<RuneError>> \o Decode(Tail(bs))

(***************************************************************************)
(* package strings                                                         *)
(***************************************************************************)
IsSpace(b) == b \in {SP, NL, "\t", "\r"}

RECURSIVE TrimLeft(_)
TrimLeft(s) ==
    IF s # <<>> /\ IsSpace(Head(s)) THEN TrimLeft(Tail(s)) ELSE s

RECURSIVE TrimRight(_)
TrimRight(s) ==
    IF s # <<>> /\ IsSpace(s[Len(s)]) THEN TrimRight(SubSeq(s, 1, Len(s) - 1)) ELSE s

\* strings.TrimSpace
TrimSpace(s) == TrimRight(TrimLeft(s))

\* index of the first byte equal to sep, 0 when there is none
IndexByte(s, sep) ==
    IF \E i \in 1..Len(s) : s[i] = sep
    THEN CHOOSE i \in 1..Len(s) : s[i] = sep /\ \A j \in 1..(i - 1) : s[j] # sep
    ELSE 0

RECURSIVE Split(_, _)
\* strings.Split(s, sep) for a one-byte separator
Split(s, sep) ==
    LET i == IndexByte(s, sep) IN
    IF i = 0 THEN <<s>>
    ELSE <<SubSeq(s, 1, i - 1)>> \o Split(SubSeq(s, i + 1, Len(s)), sep)

\* strings.SplitN(s, sep, 2) for a one-byte separator
SplitN2(s, sep) ==
    LET i == IndexByte(s, sep) IN
    IF i = 0 THEN <<s>>
    ELSE <<SubSeq(s, 1, i - 1), SubSeq(s, i + 1, Len(s))>>

RECURSIVE Join(_, _)
\* strings.Join(elems, sep)
Join(elems, sep) ==
    IF elems = <<>> THEN <<>>
    ELSE IF Len(elems) = 1 THEN elems[1]
    ELSE elems[1] \o <<sep>> \o Join(Tail(elems), sep)

\* strings.HasPrefix
HasPrefix(s, p) == Len(s) >= Len(p) /\ SubSeq(s, 1, Len(p)) = p

(***************************************************************************)
(* API keys                                                                *)
(***************************************************************************)
KeyLen == 39
KeyPrefix == <<"A", "I", "z", "a">>

\* main.go isValidAPIKey
isValidAPIKey(apiKey) == Len(apiKey) = KeyLen /\ HasPrefix(apiKey, KeyPrefix)

\* a key made of prefix p filled with byte c up to length n
MkKey(p, n, c) == p \o [i \in 1..(n - Len(p)) |-> c]

GoodKey1 == MkKey(KeyPrefix, KeyLen, "x")
GoodKey2 == MkKey(KeyPrefix, KeyLen, "y")
ShortKey == MkKey(KeyPrefix, KeyLen - 1, "x")
LongKey == MkKey(KeyPrefix, KeyLen + 1, "x")
WrongPrefixKey == MkKey(<<"B", "I", "z", "a">>, KeyLen, "x")
TinyKey == <<"k">>

\* lines the operator may type at the configuration prompt
ConfigLines ==
    { <<>>, <<SP, SP>>, GoodKey1, GoodKey2, <<SP>> \o GoodKey2, GoodKey1 \o <<SP, "z">>,
      ShortKey, LongKey, WrongPrefixKey, TinyKey }

\* fmt.Scanln(&apiKey): skips leading blanks and stores the first token
Scanln(line) ==
    LET t == TrimLeft(line)
        i == IndexByte(t, SP)
    IN IF i = 0 THEN t ELSE SubSeq(t, 1, i - 1)

(***************************************************************************)
(* package config: the credential file                                     *)
(***************************************************************************)
\* permission bits; 0600 is {"ur", "uw"}
OwnerOnly == {"ur", "uw"}
Perm644 == {"ur", "uw", "gr", "or"}

\* content of the file: JSON of a Config object (with its api_key) or other text
JsonOf(k) == [json |-> TRUE, api_key |-> k]
NotJson == [json |-> FALSE, api_key |-> <<>>]
NoFile == [exists |-> FALSE, data |-> NotJson, perm |-> {}]
FileOf(d, p) == [exists |-> TRUE, data |-> d, perm |-> p]

InitialFiles ==
    { NoFile,
      FileOf(JsonOf(GoodKey1), OwnerOnly),
      FileOf(JsonOf(TinyKey), Perm644),
      FileOf(JsonOf(<<>>), OwnerOnly),
      FileOf(NotJson, OwnerOnly) }

Umasks == { {}, {"gw", "ow"}, {"gr", "gw", "or", "ow"} }

\* config.LoadConfig: [err, APIKey].  The home directory is taken to resolve
\* (getConfigPath succeeds).
LoadConfig(f) ==
    IF ~f.exists THEN [err |-> "", APIKey |-> <<>>]
    ELSE IF "ur" \notin f.perm THEN [err |-> "read", APIKey |-> <<>>]
    ELSE IF ~f.data.json THEN [err |-> "parse", APIKey |-> <<>>]
    ELSE [err |-> "", APIKey |-> f.data.api_key]

\* os.WriteFile(name, data, perm): [err, file].  The mode argument is used
\* only when the file is created; an existing file is truncated and keeps
\* its mode.
WriteFile(f, data, perm, umask) ==
    IF ~f.exists THEN [err |-> "", file |-> FileOf(data, perm \ umask)]
    ELSE IF "uw" \notin f.perm THEN [err |-> "write", file |-> f]
    ELSE [err |-> "", file |-> FileOf(data, f.perm)]

\* config.SaveConfig: [err, file]
SaveConfig(f, cfgKey, umask) == WriteFile(f, JsonOf(cfgKey), OwnerOnly, umask)

\* config.GetAPIKey: [err, key]
GetAPIKey(f) ==
    LET c == LoadConfig(f) IN
    IF c.err # "" THEN [err |-> c.err, key |-> <<>>]
    ELSE IF c.APIKey = <<>> THEN [err |-> "not configured", key |-> <<>>]
    ELSE [err |-> "", key |-> c.APIKey]

\* config.SetAPIKey: [err, file]
SetAPIKey(f, apiKey, umask) ==
    LET c == LoadConfig(f) IN
    IF c.err # "" THEN [err |-> c.err, file |-> f]
    ELSE SaveConfig(f, apiKey, umask)

(***************************************************************************)
(* generateCommitMessages: the API response and its parsing                *)
(***************************************************************************)
TextPart(s) == [isText |-> TRUE, s |-> s]
BlobPart == [isText |-> FALSE, s |-> <<>>]

\* a response: the number of candidates and the parts of candidate 0
RespNumbered ==
    [cands |-> 1,
     parts |-> << TextPart(<<"1", ".", SP, "a", SP, "a", NL, "2", ".", SP, "C3", "A9", NL,
                             "3", ".", SP, "a", "C3", "A9">>) >>]
RespFour ==
    [cands |-> 2,
     parts |-> << TextPart(<<NL, "1", SP, "a", NL, "2", SP, "C3", "A9", NL>>), BlobPart,
                  TextPart(<<"3", SP, "a", SP, NL, "4", SP, "d", NL>>) >>]
RespPlain ==
    [cands |-> 1,
     parts |-> << TextPart(<<"f", "i", "x", SP, "a", NL, "a", "d", "d", SP, "C3", "A9", NL,
                             "a">>) >>]
RespTwo ==
    [cands |-> 1, parts |-> << TextPart(<<"1", SP, "a", NL, "2", SP, "b", NL>>) >>]
RespNoCandidates == [cands |-> 0, parts |-> <<>>]
RespNoParts == [cands |-> 1, parts |-> <<>>]
RespBlobOnly == [cands |-> 1, parts |-> <<BlobPart>>]

Responses ==
    { RespNumbered, RespFour, RespPlain, RespTwo, RespNoCandidates, RespNoParts,
      RespBlobOnly }

RECURSIVE PartsText(_)
\* the loop over resp.Candidates[0].Content.Parts: text parts concatenated
PartsText(parts) ==
    IF parts = <<>> THEN <<>>
    ELSE (IF Head(parts).isText THEN Head(parts).s ELSE <<>>) \o PartsText(Tail(parts))

\* the clean-up of one response line
CleanMessage(msg) ==
    LET parts == SplitN2(msg, SP) IN
    IF Len(parts) > 1 THEN TrimSpace(parts[2]) ELSE TrimSpace(msg)

\* a parse that cleans every line of the response instead of the first three
ParseResponseAllLines(resp) ==
    IF resp.cands = 0 \/ Len(resp.parts) = 0
    THEN [err |-> "no content generated", messages |-> <<>>]
    ELSE LET messages == Split(TrimSpace(PartsText(resp.parts)), NL) IN
         IF Len(messages) < 3
         THEN [err |-> "expected 3 messages", messages |-> <<>>]
         ELSE [err |-> "",
               messages |-> [i \in 1..Len(messages) |-> CleanMessage(messages[i])]]

\* generateCommitMessages from the response on: [err, messages]
ParseResponse(resp) ==
    IF resp.cands = 0 \/ Len(resp.parts) = 0
    THEN [err |-> "no content generated", messages |-> <<>>]
    ELSE LET messages == Split(TrimSpace(PartsText(resp.parts)), NL) IN
         IF Len(messages) < 3
         THEN [err |-> "expected 3 messages", messages |-> <<>>]
         ELSE [err |-> "", messages |-> [i \in 1..3 |-> CleanMessage(messages[i])]]

(***************************************************************************)
(* State                                                                   *)
(***************************************************************************)
VARIABLES
    pc,          \* position of main: start, loaded, diffed, generated, picker,
                 \* editor, chosen, exited
    exit,        \* how the process ended: none, ok, fatal, panic
    mode,        \* none, config (--config given), default
    file,        \* the credential file in the home directory
    apiKey,      \* main's apiKey
    diff,        \* main's diff
    response,    \* generateCommitMessages' resp, until main goes on with its result
    prompt,      \* generateCommitMessages' prompt arguments: diff, lastCommitMsg
    messages,    \* main's messages
    selected,    \* getUserChoice's selected
    tbInit,      \* whether termbox is initialised
    tbMisuse,    \* termbox.Init while initialised or termbox.Close while not
    ed,          \* editMessage's locals
    ref,         \* the text the operator has composed in the editor
    commitMsg,   \* main's commitMsg once getUserChoice returned
    committed,   \* the -m arguments of the git commit invocations
    calls,       \* how often each external operation has been invoked
    trace,       \* the steps main has completed, in order: [op, err]
    file0,       \* the credential file as it was when the process started
    cancelled    \* getUserChoice has seen editMessage return "edit cancelled"

vars ==
    << pc, exit, mode, file, apiKey, diff, response, prompt, messages, selected,
       tbInit, tbMisuse, ed, ref, commitMsg, committed, calls, trace,
       file0, cancelled >>

None == <<"none">>
NoResponse == [cands |-> -1, parts |-> <<>>]
ExternalOps == {"diff", "log", "api", "commit"}
NoEditor ==
    [arr |-> <<>>, len |-> 0, cursorPos |-> 0, scrollX |-> 0, maxScroll |-> 0,
     currentLine |-> 0, width |-> 0, initialMsg |-> <<>>]

Init ==
    /\ pc = "start"
    /\ exit = "none"
    /\ mode = "none"
    /\ file \in InitialFiles
    /\ apiKey = <<>>
    /\ diff = <<>>
    /\ response = NoResponse
    /\ prompt = None
    /\ messages = <<>>
    /\ selected = 0
    /\ tbInit = FALSE
    /\ tbMisuse = FALSE
    /\ ed = NoEditor
    /\ ref = <<>>
    /\ commitMsg = None
    /\ committed = <<>>
    /\ calls = [op \in ExternalOps |-> 0]
    /\ trace = <<>>
    /\ file0 = file
    /\ cancelled = FALSE

\* a completed step and its error ("" when it succeeded)
Step(op, err) == [op |-> op, err |-> err]

\* one more invocation of each operation in ops
Called(ops) == [op \in ExternalOps |-> IF op \in ops THEN calls[op] + 1 ELSE calls[op]]

\* a failure that is reported without ending the process
FatalGoesOn ==
    /\ pc' = pc
    /\ exit' = "fatal"
    /\ file0' = file0

\* log.Fatal: the process exits at once
Fatal ==
    /\ pc' = "exited"
    /\ exit' = "fatal"
    /\ file0' = file0

\* the process goes on (or ends) with the given position and exit state
Goto(p, x) ==
    /\ pc' = p
    /\ exit' = x
    /\ file0' = file0

(***************************************************************************)
(* main, configuration mode                                                *)
(***************************************************************************)
\* main with --config: prompt, validate, config.SetAPIKey
ConfigMode ==
    /\ pc = "start"
    /\ \E line \in ConfigLines, umask \in Umasks :
         LET key == TrimSpace(Scanln(line)) IN
         /\ mode' = "config"
         /\ apiKey' = key
         /\ IF key = <<>>
            THEN /\ Fatal
                 /\ file' = file
                 /\ trace' = <<Step("config", "empty")>>
            ELSE IF ~isValidAPIKey(key)
            THEN /\ Fatal
                 /\ file' = file
                 /\ trace' = <<Step("config", "format")>>
            ELSE LET r == SetAPIKey(file, key, umask) IN
                 /\ file' = r.file
                 /\ IF r.err = "" THEN Goto("exited", "ok") ELSE Fatal
                 /\ trace' = <<Step("config", r.err)>>
    /\ UNCHANGED << cancelled, diff, response, prompt, messages, selected, tbInit, tbMisuse, ed,
                    ref, commitMsg, committed, calls >>

(***************************************************************************)
(* main, default mode                                                      *)
(***************************************************************************)
\* config.GetAPIKey and its error check
LoadKey ==
    /\ pc = "start"
    /\ mode' = "default"
    /\ LET r == GetAPIKey(file) IN
       /\ trace' = Append(trace, Step("load", r.err))
       /\ IF r.err # ""
          THEN Fatal /\ apiKey' = apiKey
          ELSE Goto("loaded", exit) /\ apiKey' = r.key
    /\ UNCHANGED << cancelled, file, diff, response, prompt, messages, selected, tbInit,
                    tbMisuse, ed, ref, commitMsg, committed, calls >>

\* what `git diff --cached` may produce: [err, out]
DiffResults ==
    { [err |-> TRUE, out |-> <<>>], [err |-> FALSE, out |-> <<>>],
      [err |-> FALSE, out |-> <<"+", "x", NL>>] }

\* a check of the diff that lets an empty diff through
DiffErrorNoEmptyCheck(r) == IF r.err THEN "exec" ELSE ""

\* getGitDiff's error and main's `diff == ""` check: the error main stops with
DiffError(r) == IF r.err THEN "exec" ELSE IF r.out = <<>> THEN "empty" ELSE ""

\* main calls getGitDiff before it has loaded the key
DiffEnabledEarly == pc \in {"start", "loaded"}

\* main reaches getGitDiff after config.GetAPIKey returned no error
DiffEnabled == pc = "loaded"

\* getGitDiff and main's checks of its result
GetGitDiff ==
    /\ DiffEnabled
    /\ \E r \in DiffResults :
         /\ trace' = Append(trace, Step("diff", DiffError(r)))
         /\ calls' = Called({"diff"})
         /\ diff' = r.out
         /\ IF DiffError(r) = "" THEN Goto("diffed", exit) ELSE Fatal
    /\ UNCHANGED << mode, cancelled, file, apiKey, response, prompt, messages, selected, tbInit,
                    tbMisuse, ed, ref, commitMsg, committed >>

\* what `git log -1 --pretty=%B` may produce: [err, out]
LogResults ==
    { [err |-> TRUE, out |-> <<>>], [err |-> FALSE, out |-> <<"f", "i", "x", NL, NL>>] }

\* getLastCommitMessage: [err, msg]
getLastCommitMessage(r) ==
    IF r.err THEN [err |-> TRUE, msg |-> <<>>] ELSE [err |-> FALSE, msg |-> TrimSpace(r.out)]

\* a generateCommitMessages that returns the error of getLastCommitMessage
GenerateLogFatal ==
    /\ pc = "diffed"
    /\ \E clientOK \in BOOLEAN, lg \in LogResults, apiOK \in BOOLEAN, resp \in Responses :
         IF ~clientOK
         THEN /\ Fatal
              /\ trace' = Append(trace, Step("generate", "client"))
              /\ UNCHANGED << response, prompt, messages, calls >>
         ELSE LET last == getLastCommitMessage(lg)
                  lastCommitMsg == IF last.err THEN <<>> ELSE last.msg
              IN IF last.err
                 THEN /\ Fatal
                      /\ calls' = Called({"log"})
                      /\ trace' = Append(trace, Step("generate", "log"))
                      /\ UNCHANGED << response, prompt, messages >>
                 ELSE
                 /\ prompt' = <<diff, lastCommitMsg>>
                 /\ calls' = Called({"log", "api"})
                 /\ IF ~apiOK
                    THEN /\ Fatal
                         /\ trace' = Append(trace, Step("generate", "api"))
                         /\ UNCHANGED << response, messages >>
                    ELSE LET r == ParseResponse(resp) IN
                         /\ response' = resp
                         /\ messages' = r.messages
                         /\ trace' = Append(trace, Step("generate", r.err))
                         /\ IF r.err # "" THEN Fatal ELSE Goto("generated", exit)
    /\ UNCHANGED << mode, cancelled, file, apiKey, diff, selected, tbInit, tbMisuse, ed, ref,
                    commitMsg, committed >>

\* generateCommitMessages and main's check of its result
Generate ==
    /\ pc = "diffed"
    /\ \E clientOK \in BOOLEAN, lg \in LogResults, apiOK \in BOOLEAN, resp \in Responses :
         IF ~clientOK
         THEN /\ Fatal
              /\ trace' = Append(trace, Step("generate", "client"))
              /\ UNCHANGED << response, prompt, messages, calls >>
         ELSE LET last == getLastCommitMessage(lg)
                  lastCommitMsg == IF last.err THEN <<>> ELSE last.msg
              IN /\ prompt' = <<diff, lastCommitMsg>>
                 /\ calls' = Called({"log", "api"})
                 /\ IF ~apiOK
                    THEN /\ Fatal
                         /\ trace' = Append(trace, Step("generate", "api"))
                         /\ UNCHANGED << response, messages >>
                    ELSE LET r == ParseResponse(resp) IN
                         /\ response' = resp
                         /\ messages' = r.messages
                         /\ trace' = Append(trace, Step("generate", r.err))
                         /\ IF r.err # "" THEN Fatal ELSE Goto("generated", exit)
    /\ UNCHANGED << mode, cancelled, file, apiKey, diff, selected, tbInit, tbMisuse, ed, ref,
                    commitMsg, committed >>

(***************************************************************************)
(* termbox                                                                 *)
(***************************************************************************)
RECURSIVE TbRun(_, _)
\* the effect of a sequence of termbox cs on [init, misuse]: "I" is an
\* Init that succeeds, "F" an Init that fails, "C" a Close
TbRun(st, cs) ==
    IF cs = <<>> THEN st
    ELSE LET c == Head(cs)
             nxt == IF c = "C"
                    THEN [init |-> FALSE, misuse |-> st.misuse \/ ~st.init]
                    ELSE [init |-> (c = "I"), misuse |-> st.misuse \/ st.init]
         IN TbRun(nxt, Tail(cs))

Tb(cs) ==
    LET r == TbRun([init |-> tbInit, misuse |-> tbMisuse], cs) IN
    /\ tbInit' = r.init
    /\ tbMisuse' = r.misuse

(***************************************************************************)
(* editMessage: the rune buffer as a Go slice (backing array arr, length   *)
(* len, capacity Len(arr)) and the cursor                                  *)
(***************************************************************************)
TypedRunes == {"é"}
Widths == {8, 10}

Zeros(k) == [i \in 1..k |-> NUL]

\* editedMsg as the code reads it
Visible(e) == SubSeq(e.arr, 1, e.len)

\* width after the `if width < 10` default
EffectiveWidth(w) == IF w < 10 THEN 80 ELSE w

\* the state of editMessage before its first redraw
NewEditor(initialMsg, w, slack) ==
    LET rs == Decode(initialMsg) IN
    [arr |-> rs \o Zeros(slack), len |-> Len(rs), cursorPos |-> Len(rs), scrollX |-> 0,
     maxScroll |-> 0, currentLine |-> 0, width |-> EffectiveWidth(w),
     initialMsg |-> initialMsg]

Ok(e) == [panic |-> FALSE, e |-> e]
Panic(e) == [panic |-> TRUE, e |-> e]

\* redraw: clamps currentLine; editedMsg[:cursorPos] panics beyond the capacity
Redraw(e) ==
    LET lines == Split(Encode(Visible(e)), NL)
        cl == IF e.currentLine >= Len(lines) THEN Len(lines) - 1 ELSE e.currentLine
        e1 == [e EXCEPT !.currentLine = cl]
    IN IF e.cursorPos > Len(e.arr) THEN Panic(e1) ELSE Ok(e1)

\* an insertion written append(append(editedMsg[:cursorPos], r), editedMsg[cursorPos:]...):
\* with spare capacity the first append overwrites the element at the cursor
InsertRuneAliased(e, r, slack) ==
    LET p == e.cursorPos
        need == e.len + 1
    IN IF p > e.len THEN Panic(e)
       ELSE IF need <= Len(e.arr)
       THEN Ok([e EXCEPT !.arr = SubSeq(e.arr, 1, p) \o <<r>>
                                   \o (IF p < e.len THEN <<r>> ELSE <<>>)
                                   \o SubSeq(e.arr, p + 2, e.len)
                                   \o SubSeq(e.arr, need + 1, Len(e.arr)),
                         !.len = need, !.cursorPos = p + 1])
       ELSE Ok([e EXCEPT !.arr = SubSeq(e.arr, 1, p) \o <<r>> \o SubSeq(e.arr, p + 1, e.len)
                                   \o Zeros(slack),
                         !.len = need, !.cursorPos = p + 1])

\* editedMsg = append(editedMsg[:cursorPos], append([]rune{r}, editedMsg[cursorPos:]...)...)
\* and cursorPos++; editedMsg[cursorPos:] panics when cursorPos > len
InsertRune(e, r, slack) ==
    LET p == e.cursorPos
        t == <<r>> \o SubSeq(e.arr, p + 1, e.len)
        need == e.len + 1
    IN IF p > e.len THEN Panic(e)
       ELSE IF need <= Len(e.arr)
       THEN Ok([e EXCEPT !.arr = SubSeq(e.arr, 1, p) \o t \o SubSeq(e.arr, need + 1, Len(e.arr)),
                         !.len = need, !.cursorPos = p + 1])
       ELSE Ok([e EXCEPT !.arr = SubSeq(e.arr, 1, p) \o t \o Zeros(slack),
                         !.len = need, !.cursorPos = p + 1])

\* editedMsg = append(editedMsg[:lo], editedMsg[lo+1:]...): the elements after
\* index lo move down by one inside the same array
RemoveAt(e, lo) ==
    IF lo + 1 > e.len \/ lo > Len(e.arr) THEN Panic(e)
    ELSE Ok([e EXCEPT !.arr = SubSeq(e.arr, 1, lo) \o SubSeq(e.arr, lo + 2, e.len)
                                \o SubSeq(e.arr, e.len, Len(e.arr)),
                      !.len = e.len - 1])

\* the scroll adjustment after the cursor moved right
ScrollRight(e) ==
    IF e.cursorPos >= e.scrollX + e.width - 1
    THEN [e EXCEPT !.scrollX = e.cursorPos - e.width + 2]
    ELSE e

\* the scroll adjustment after the cursor moved left
ScrollLeft(e) ==
    IF e.cursorPos < e.scrollX THEN [e EXCEPT !.scrollX = e.cursorPos] ELSE e

\* the end of the key switch: maxScroll, the clamp of scrollX, redraw
PostKey(r) ==
    IF r.panic THEN r
    ELSE LET e == r.e
             ms == IF e.len > e.width - 1 THEN e.len - e.width + 1 ELSE 0
             sx == IF e.scrollX > ms THEN ms ELSE e.scrollX
         IN Redraw([e EXCEPT !.maxScroll = ms, !.scrollX = sx])

\* case KeyEnter with ModAlt
KeyAltEnter(e, slack) ==
    LET r == InsertRune(e, NL, slack) IN
    IF r.panic THEN r ELSE Redraw(r.e)

\* case KeyBackspace, KeyBackspace2
KeyBackspace(e) ==
    IF e.cursorPos > 0
    THEN LET r == RemoveAt(e, e.cursorPos - 1) IN
         IF r.panic THEN r
         ELSE Ok(ScrollLeft([r.e EXCEPT !.cursorPos = e.cursorPos - 1]))
    ELSE Ok(e)

\* case KeyDelete
KeyDelete(e) ==
    IF e.cursorPos < e.len THEN RemoveAt(e, e.cursorPos) ELSE Ok(e)

\* case KeyArrowLeft
KeyArrowLeft(e) ==
    IF e.cursorPos > 0 THEN Ok(ScrollLeft([e EXCEPT !.cursorPos = e.cursorPos - 1])) ELSE Ok(e)

\* case KeyArrowRight
KeyArrowRight(e) ==
    IF e.cursorPos < e.len THEN Ok(ScrollRight([e EXCEPT !.cursorPos = e.cursorPos + 1]))
    ELSE Ok(e)

\* strings.Split(string(editedMsg[:cursorPos]), "\n")
LinesBeforeCursor(e) == Split(Encode(SubSeq(e.arr, 1, e.cursorPos)), NL)

\* case KeyArrowUp; lengths are len() of strings, that is, byte counts
KeyArrowUp(e) ==
    IF e.cursorPos > Len(e.arr) THEN Panic(e)
    ELSE LET lines == LinesBeforeCursor(e) IN
         IF Len(lines) > 1
         THEN LET cl == Len(lines) - 2
                  prevLine == lines[cl + 1]
                  cp == IF Len(prevLine) < e.cursorPos - Len(lines[Len(lines)]) - 1
                        THEN Len(Join(SubSeq(lines, 1, cl + 1), NL)) + 1
                        ELSE Len(Join(SubSeq(lines, 1, cl), NL)) + 1 + Len(prevLine)
              IN Redraw([e EXCEPT !.currentLine = cl, !.cursorPos = cp])
         ELSE Ok(e)

\* case KeyArrowDown
KeyArrowDown(e) ==
    IF e.cursorPos > Len(e.arr) THEN Panic(e)
    ELSE LET lines == LinesBeforeCursor(e) IN
         IF e.currentLine < Len(lines) - 1
         THEN LET cl == e.currentLine + 1
                  nextLine == lines[cl + 1]
                  j == Len(Join(SubSeq(lines, 1, cl), NL))
                  cp == IF Len(nextLine) < e.cursorPos - j - 1
                        THEN j + 1 + Len(nextLine)
                        ELSE j + 1
              IN Redraw([e EXCEPT !.currentLine = cl, !.cursorPos = cp])
         ELSE Ok(e)

\* case KeySpace, and the default case for ev.Ch # 0
KeyInsert(e, r, slack) ==
    LET x == InsertRune(e, r, slack) IN
    IF x.panic THEN x ELSE Ok(ScrollRight(x.e))

(***************************************************************************)
(* The operator's text: pure sequence edits, kept beside the Go slice      *)
(***************************************************************************)
InsertAt(txt, p, r) == SubSeq(txt, 1, p) \o <<r>> \o SubSeq(txt, p + 1, Len(txt))
DeleteAt(txt, p) == SubSeq(txt, 1, p) \o SubSeq(txt, p + 2, Len(txt))

(***************************************************************************)
(* getUserChoice                                                           *)
(***************************************************************************)
\* getUserChoice up to its first PollEvent: termbox.Init, selected := 0, draw
OpenPicker ==
    /\ pc = "generated"
    /\ \E initOK \in BOOLEAN :
         IF initOK
         THEN /\ Tb(<<"I">>)
              /\ selected' = 0
              /\ Goto("picker", exit)
              /\ trace' = trace
         ELSE /\ Tb(<<"F">>)
              /\ selected' = selected
              /\ Fatal
              /\ trace' = Append(trace, Step("pick", "init"))
    /\ response' = NoResponse
    /\ prompt' = None
    /\ UNCHANGED << mode, cancelled, file, apiKey, diff, messages, ed, ref, commitMsg, committed,
                    calls >>

\* the picker's ArrowUp with the index moved below zero
PickerUpWrap(sel, n) == IF sel > 0 THEN sel - 1 ELSE n

\* case KeyArrowUp of the picker
PickerUp(sel, n) == IF sel > 0 THEN sel - 1 ELSE sel

\* case KeyArrowDown of the picker
PickerDown(sel, n) == IF sel < n THEN sel + 1 ELSE sel

PickerArrowUp ==
    /\ pc = "picker"
    /\ selected' = PickerUp(selected, Len(messages))
    /\ UNCHANGED << pc, exit, mode, cancelled, file, apiKey, diff, response, prompt, messages,
                    tbInit, tbMisuse, ed, ref, commitMsg, committed, trace, calls,
                    file0 >>

PickerArrowDown ==
    /\ pc = "picker"
    /\ selected' = PickerDown(selected, Len(messages))
    /\ UNCHANGED << pc, exit, mode, cancelled, file, apiKey, diff, response, prompt, messages,
                    tbInit, tbMisuse, ed, ref, commitMsg, committed, trace, calls,
                    file0 >>

\* the text editMessage is called with for the highlighted entry
InitialText(msgs, sel) == IF sel = Len(msgs) THEN <<>> ELSE msgs[sel + 1]

\* case KeyEnter of the picker: termbox.Close, then editMessage up to its
\* first PollEvent (termbox.Init, the buffer, the first redraw)
PickerEnter ==
    /\ pc = "picker"
    /\ \E initOK \in BOOLEAN, w \in Widths, slack \in 0..MaxSlack :
         IF initOK
         THEN LET r == Redraw(NewEditor(InitialText(messages, selected), w, slack)) IN
              /\ Tb(<<"C", "I">>)
              /\ ed' = r.e
              /\ ref' = Decode(InitialText(messages, selected))
              /\ Goto("editor", exit)
              /\ trace' = trace
         ELSE \* editMessage returns the error, getUserChoice returns it
              /\ Tb(<<"C", "F", "C">>)
              /\ Fatal
              /\ trace' = Append(trace, Step("pick", "init"))
              /\ UNCHANGED << ed, ref >>
    /\ UNCHANGED << mode, cancelled, file, apiKey, diff, response, prompt, messages, selected,
                    commitMsg, committed, calls >>

\* case KeyEsc of the picker: "selection cancelled"
PickerEsc ==
    /\ pc = "picker"
    /\ Tb(<<"C", "C">>)
    /\ Fatal
    /\ trace' = Append(trace, Step("pick", "selection cancelled"))
    /\ UNCHANGED << mode, cancelled, file, apiKey, diff, response, prompt, messages, selected, ed,
                    ref, commitMsg, committed, calls >>

\* case EventError of the picker
PickerEventError ==
    /\ pc = "picker"
    /\ Tb(<<"C">>)
    /\ Fatal
    /\ trace' = Append(trace, Step("pick", "event"))
    /\ UNCHANGED << mode, cancelled, file, apiKey, diff, response, prompt, messages, selected, ed,
                    ref, commitMsg, committed, calls >>

(***************************************************************************)
(* editMessage: one key event each                                         *)
(***************************************************************************)
\* the editor goes on with r.e, or the slice expression panicked: the
\* deferred Close of editMessage and of getUserChoice run and the process dies
EditorStep(r, newRef) ==
    /\ pc = "editor"
    /\ IF r.panic
       THEN /\ Tb(<<"C", "C">>)
            /\ Goto("exited", "panic")
            /\ ed' = r.e
            /\ ref' = ref
            /\ trace' = Append(trace, Step("pick", "panic"))
       ELSE /\ UNCHANGED << tbInit, tbMisuse, pc, exit, file0, trace >>
            /\ ed' = r.e
            /\ ref' = newRef
    /\ UNCHANGED << mode, cancelled, file, apiKey, diff, response, prompt, messages, selected,
                    commitMsg, committed, calls >>

EditChar ==
    \E ch \in TypedRunes, slack \in 0..MaxSlack :
      /\ ed.len < MaxLen
      /\ EditorStep(PostKey(KeyInsert(ed, ch, slack)), InsertAt(ref, ed.cursorPos, ch))

EditSpace ==
    \E slack \in 0..MaxSlack :
      /\ ed.len < MaxLen
      /\ EditorStep(PostKey(KeyInsert(ed, SP, slack)), InsertAt(ref, ed.cursorPos, SP))

EditAltEnter ==
    \E slack \in 0..MaxSlack :
      /\ ed.len < MaxLen
      /\ EditorStep(PostKey(KeyAltEnter(ed, slack)), InsertAt(ref, ed.cursorPos, NL))

EditBackspace ==
    EditorStep(PostKey(KeyBackspace(ed)),
               IF ed.cursorPos > 0 THEN DeleteAt(ref, ed.cursorPos - 1) ELSE ref)

EditDelete ==
    EditorStep(PostKey(KeyDelete(ed)),
               IF ed.cursorPos < ed.len THEN DeleteAt(ref, ed.cursorPos) ELSE ref)

EditArrowLeft == EditorStep(PostKey(KeyArrowLeft(ed)), ref)

EditArrowRight == EditorStep(PostKey(KeyArrowRight(ed)), ref)

EditArrowUp == EditorStep(PostKey(KeyArrowUp(ed)), ref)

EditArrowDown == EditorStep(PostKey(KeyArrowDown(ed)), ref)

\* case KeyEnter without ModAlt: editMessage returns string(editedMsg),
\* getUserChoice returns it to main
EditEnter ==
    /\ pc = "editor"
    /\ Tb(<<"C", "C">>)
    /\ commitMsg' = Encode(Visible(ed))
    /\ Goto("chosen", exit)
    /\ ed' = NoEditor
    /\ UNCHANGED << mode, cancelled, file, apiKey, diff, response, prompt, messages, selected,
                    ref, committed, trace, calls >>

\* ev.Mod of a key event for the modifier keys held: termbox has a modifier
\* bit for Alt and none for Shift
ModOf(held) == IF "alt" \in held THEN {"ModAlt"} ELSE {}

\* the test `ev.Mod&termbox.ModAlt != 0` of case KeyEnter
EnterInsertsNewline(mod) == "ModAlt" \in mod

\* case KeyEnter for Enter pressed with Shift held
EditShiftEnter ==
    IF EnterInsertsNewline(ModOf({"shift"})) THEN EditAltEnter ELSE EditEnter

\* an editor Esc after which getUserChoice starts its list over: selected = 0
EditEscResetsSelection ==
    /\ pc = "editor"
    /\ \E initOK \in BOOLEAN :
         IF initOK
         THEN /\ Tb(<<"C", "I">>)
              /\ Goto("picker", exit)
              /\ trace' = trace
         ELSE /\ Tb(<<"C", "F", "C">>)
              /\ Fatal
              /\ trace' = Append(trace, Step("pick", "init"))
    /\ cancelled' = TRUE
    /\ selected' = 0
    /\ ed' = NoEditor
    /\ ref' = <<>>
    /\ UNCHANGED << mode, file, apiKey, diff, response, prompt, messages,
                    commitMsg, committed, calls >>

\* case KeyEsc: "edit cancelled"; getUserChoice initialises termbox again
\* and goes back to the picker
EditEsc ==
    /\ pc = "editor"
    /\ \E initOK \in BOOLEAN :
         IF initOK
         THEN /\ Tb(<<"C", "I">>)
              /\ Goto("picker", exit)
              /\ trace' = trace
         ELSE /\ Tb(<<"C", "F", "C">>)
              /\ Fatal
              /\ trace' = Append(trace, Step("pick", "init"))
    /\ cancelled' = TRUE
    /\ ed' = NoEditor
    /\ ref' = <<>>
    /\ UNCHANGED << mode, file, apiKey, diff, response, prompt, messages, selected,
                    commitMsg, committed, calls >>

\* case EventError of the editor
EditEventError ==
    /\ pc = "editor"
    /\ Tb(<<"C", "C">>)
    /\ Fatal
    /\ trace' = Append(trace, Step("pick", "event"))
    /\ ed' = NoEditor
    /\ ref' = <<>>
    /\ UNCHANGED << mode, cancelled, file, apiKey, diff, response, prompt, messages, selected,
                    commitMsg, committed, calls >>

(***************************************************************************)
(* main: the commit                                                        *)
(***************************************************************************)
\* main commits although getUserChoice has not returned a message
CommitEnabledEarly == pc \in {"chosen", "picker"}

\* main reaches exec.Command("git", "commit", ...) after getUserChoice returned nil error
CommitEnabled == pc = "chosen"

\* git commit -m commitMsg and the check of its result
Commit ==
    /\ CommitEnabled
    /\ \E ok \in BOOLEAN :
         /\ committed' = Append(committed, IF commitMsg = None THEN <<>> ELSE commitMsg)
         /\ trace' = trace \o <<Step("pick", ""), Step("commit", IF ok THEN "" ELSE "exec")>>
         /\ calls' = Called({"commit"})
         /\ IF ok THEN Goto("exited", "ok") ELSE Fatal
    /\ UNCHANGED << mode, cancelled, file, apiKey, diff, response, prompt, messages, selected,
                    tbInit, tbMisuse, ed, ref, commitMsg >>

Next ==
    \/ ConfigMode
    \/ LoadKey
    \/ GetGitDiff
    \/ Generate
    \/ OpenPicker
    \/ PickerArrowUp
    \/ PickerArrowDown
    \/ PickerEnter
    \/ PickerEsc
    \/ PickerEventError
    \/ EditChar
    \/ EditSpace
    \/ EditAltEnter
    \/ EditBackspace
    \/ EditDelete
    \/ EditArrowLeft
    \/ EditArrowRight
    \/ EditArrowUp
    \/ EditArrowDown
    \/ EditEnter
    \/ EditShiftEnter
    \/ EditEsc
    \/ EditEventError
    \/ Commit

Spec == Init /\ [][Next]_vars

(***************************************************************************)
(* Properties                                                              *)
(***************************************************************************)
LastStep == trace[Len(trace)]
StepDone(op) == \E i \in 1..Len(trace) : trace[i].op = op
StepOk(op) == \E i \in 1..Len(trace) : trace[i].op = op /\ trace[i].err = ""
OpsOf(t) == [i \in 1..Len(t) |-> t[i].op]
IsPrefix(a, b) == Len(a) <= Len(b) /\ SubSeq(b, 1, Len(a)) = a

\* the key format: prefix "AIza", 39 characters
WellFormed(k) ==
    /\ Len(k) = 39
    /\ k[1] = "A" /\ k[2] = "I" /\ k[3] = "z" /\ k[4] = "a"

\* C1: the message handed to `git commit -m` (and the one getUserChoice
\* returns) is the encoding of exactly the text the operator composed: the
\* candidate the editor was opened with, changed by the insertions and
\* deletions made at the cursor, for any characters and cursor movements;
\* while the editor is open its buffer is that text.
C1_CommitMessageIsConfirmedText ==
    /\ pc = "editor" => Visible(ed) = ref
    /\ pc = "chosen" => commitMsg = Encode(ref)
    /\ \A i \in 1..Len(committed) : committed[i] = Encode(ref)

\* C1 witness: a commit whose message was built by moving the cursor and
\* inserting a non-ASCII character and a newline in front of the candidate "a"
C1_Witness ==
    /\ committed = << <<"C3", "A9", NL, "a">> >>
    /\ messages[selected + 1] = <<"a">>

\* C2: once `git diff --cached` has returned an empty diff the run is over:
\* the API and `git log` were never called, the picker never opened and
\* `git commit` never ran.
C2_EmptyDiffStopsRun ==
    (calls["diff"] > 0 /\ diff = <<>>) =>
        /\ pc = "exited" /\ exit = "fatal"
        /\ LastStep.op = "diff"
        /\ calls["api"] = 0 /\ calls["log"] = 0 /\ calls["commit"] = 0
        /\ committed = <<>>
        /\ ~tbInit /\ ~StepDone("pick")

\* C2 witness: git diff succeeded and printed nothing, and the run has ended
C2_Witness ==
    /\ calls["diff"] = 1 /\ diff = <<>>
    /\ LastStep = Step("diff", "empty")
    /\ pc = "exited"

\* the lines of the response text after trimming
ResponseLines(resp) == Split(TrimSpace(PartsText(resp.parts)), NL)
HasTextPart(resp) == \E i \in 1..Len(resp.parts) : resp.parts[i].isText

\* C3: for every API response generateCommitMessages returns an error or
\* exactly 3 messages; no candidates, no text part or fewer than 3 lines
\* gives an error, never a list of another length.
C3_ThreeMessagesOrError ==
    /\ Len(messages) \in {0, 3}
    /\ response # NoResponse =>
         /\ LastStep.op = "generate"
         /\ LastStep.err = "" => Len(messages) = 3 /\ pc = "generated"
         /\ LastStep.err # "" => messages = <<>> /\ exit = "fatal"
         /\ ( \/ response.cands = 0
              \/ ~HasTextPart(response)
              \/ Len(ResponseLines(response)) < 3 ) => LastStep.err # ""

\* C3 witness: a response of more than three lines has given three messages
C3_Witness ==
    /\ response # NoResponse
    /\ response.cands > 0 /\ Len(ResponseLines(response)) > 3
    /\ Len(messages) = 3

\* C4 (as claimed): configuration mode writes the entered key if and only if
\* it is well-formed; a malformed key ends in an error with the file unchanged.
C4_ConfigWritesIffWellFormed ==
    (mode = "config" /\ pc = "exited") =>
        /\ (exit = "ok" /\ file.exists /\ file.data = JsonOf(apiKey)) <=> WellFormed(apiKey)
        /\ ~WellFormed(apiKey) => exit = "fatal" /\ file = file0

\* C5: git commit runs at most once, with one message, and only with the
\* message the operator confirmed in the editor; after a cancelled picker or
\* any failed step it has not run.
C5_AtMostOneCommitAfterConfirm ==
    /\ Len(committed) <= 1
    /\ calls["commit"] = Len(committed)
    /\ committed # <<>> =>
         /\ commitMsg # None
         /\ committed[1] = commitMsg
         /\ StepOk("pick")
         /\ \A i \in 1..Len(trace) : trace[i].err # "" => trace[i].op = "commit"
    /\ (\E i \in 1..Len(trace) : trace[i].op # "commit" /\ trace[i].err # "") =>
         committed = <<>> /\ calls["commit"] = 0

\* C5 witness: one commit was made after the operator confirmed
C5_Witness ==
    /\ Len(committed) = 1
    /\ exit = "ok"
    /\ StepOk("commit")

\* C6: a failed step is the last thing the run does: the process has exited,
\* no step follows the failure, and no external operation was invoked twice.
C6_FailureTerminates ==
    /\ \A op \in ExternalOps : calls[op] <= 1
    /\ \A i \in 1..Len(trace) :
         trace[i].err # "" => i = Len(trace) /\ pc = "exited" /\ exit # "ok"
    /\ exit = "fatal" => pc = "exited" /\ trace # <<>> /\ LastStep.err # ""
    /\ pc = "exited" => ~ENABLED Next

\* C6 witness: the API call or the parse of its response failed and the run ended
C6_Witness ==
    /\ trace # <<>>
    /\ LastStep.op = "generate" /\ LastStep.err # ""
    /\ calls["api"] = 1
    /\ pc = "exited"

PipelineOrder == <<"load", "diff", "generate", "pick", "commit">>

\* C7: default mode does credential load, diff, generation, pick/edit and
\* commit in this order, each only after all earlier ones succeeded;
\* configuration mode does none of diff, generation, pick and commit.
C7_FixedOrder ==
    /\ mode # "config" =>
         /\ IsPrefix(OpsOf(trace), PipelineOrder)
         /\ \A i \in 1..(Len(trace) - 1) : trace[i].err = ""
         /\ calls["diff"] > 0 => StepOk("load")
         /\ (calls["log"] > 0 \/ calls["api"] > 0) => StepOk("load") /\ StepOk("diff")
         /\ (tbInit \/ pc \in {"picker", "editor", "chosen"}) =>
              OpsOf(trace) = SubSeq(PipelineOrder, 1, 3) /\ StepOk("generate")
         /\ calls["commit"] > 0 => StepOk("generate") /\ StepOk("pick")
    /\ mode = "config" =>
         /\ OpsOf(trace) = <<"config">>
         /\ \A op \in ExternalOps : calls[op] = 0
         /\ ~tbInit /\ ~tbMisuse /\ committed = <<>> /\ messages = <<>>
         /\ pc = "exited"

\* C7 witness: a default-mode run that went through all five steps
C7_Witness ==
    /\ mode = "default"
    /\ OpsOf(trace) = PipelineOrder
    /\ exit = "ok"

\* C8 (as claimed): configuration mode with a well-formed key always stores
\* it, whatever the file held before: SetAPIKey succeeds and GetAPIKey then
\* returns that key.
C8_ConfigAlwaysUpdatesKey ==
    (mode = "config" /\ pc = "exited" /\ WellFormed(apiKey)) =>
        /\ exit = "ok"
        /\ GetAPIKey(file) = [err |-> "", key |-> apiKey]

\* C9 (as claimed): the credential default mode passes to the API client
\* matches the key format, for every initial content of the config file.
C9_ApiKeyWellFormed ==
    (mode = "default" /\ calls["api"] > 0) => WellFormed(apiKey)

\* C10 (as claimed): after SaveConfig succeeded the credential file has
\* mode 0600, whether it was created or existed with a wider mode.
C10_SavedFileOwnerOnly ==
    (mode = "config" /\ exit = "ok") => file.exists /\ file.perm = {"ur", "uw"}

\* a number prefix: one or more digits, then "." or ")" or nothing
IsDigit(b) == b \in {"0", "1", "2", "3", "4", "5", "6", "7", "8", "9"}
IsNumberPrefix(w) ==
    /\ w # <<>>
    /\ IsDigit(w[1])
    /\ \A i \in 1..(Len(w) - 1) : IsDigit(w[i])
    /\ IsDigit(w[Len(w)]) \/ (Len(w) > 1 /\ w[Len(w)] \in {".", ")"})

\* a response line with its number prefix removed if it has one, trimmed
WithoutNumberPrefix(line) ==
    LET t == TrimSpace(line)
        i == IndexByte(t, SP)
    IN IF i > 1 /\ IsNumberPrefix(SubSeq(t, 1, i - 1))
       THEN TrimSpace(SubSeq(t, i + 1, Len(t)))
       ELSE t

\* C11 (as claimed): each candidate generateCommitMessages returns is the
\* corresponding one of the first three response lines, trimmed, without its
\* leading number prefix if it has one; a line without a number prefix is
\* returned whole, with none of its words removed.
C11_CandidatesAreResponseLines ==
    (pc = "generated" /\ response # NoResponse) =>
        \A i \in 1..3 : messages[i] = WithoutNumberPrefix(ResponseLines(response)[i])

\* the line (from 0) the cursor is on, and the last line of the buffer
CursorLine(e) == Cardinality({i \in 1..e.cursorPos : i <= e.len /\ e.arr[i] = NL})
LastLine(e) == Cardinality({i \in 1..e.len : e.arr[i] = NL})

\* C12 (as claimed): with the cursor inside the buffer, ArrowUp puts the
\* cursor on the line immediately above its line when there is one, ArrowDown
\* on the line immediately below when there is one, and neither key changes
\* the buffer content.
C12_ArrowsMoveOneLine ==
    [][ (pc = "editor" /\ ed.cursorPos <= ed.len) =>
          /\ (EditArrowUp /\ CursorLine(ed) > 0) =>
                /\ pc' = "editor"
                /\ Visible(ed') = Visible(ed)
                /\ CursorLine(ed') = CursorLine(ed) - 1
          /\ (EditArrowDown /\ CursorLine(ed) < LastLine(ed)) =>
                /\ pc' = "editor"
                /\ Visible(ed') = Visible(ed)
                /\ CursorLine(ed') = CursorLine(ed) + 1 ]_vars

\* C13 (as claimed): after any sequence of key events the cursor satisfies
\* 0 <= cursorPos <= len(editedMsg) in characters, so no slice of the buffer
\* taken at the cursor is out of range.
C13_CursorWithinBuffer ==
    /\ exit # "panic"
    /\ pc = "editor" => (0 <= ed.cursorPos /\ ed.cursorPos <= ed.len)

\* C14 (as claimed): in the editor Shift+Enter inserts a newline at the
\* cursor, advances the cursor by one and keeps the editor open, while plain
\* Enter confirms and returns the whole buffer as the message.
C14_ShiftEnterInsertsNewline ==
    [][ (pc = "editor" /\ ed.cursorPos <= ed.len) =>
          /\ EditShiftEnter =>
                /\ pc' = "editor"
                /\ Visible(ed') = InsertAt(Visible(ed), ed.cursorPos, NL)
                /\ ed'.cursorPos = ed.cursorPos + 1
          /\ EditEnter =>
                /\ pc' = "chosen"
                /\ commitMsg' = Encode(Visible(ed)) ]_vars

\* C15 (as claimed): Esc in the editor abandons the edit without ending the
\* run: the picker is shown again with the same entry highlighted and the
\* candidate list unchanged, and no commit is made.
C15_EscKeepsRunGoing ==
    [][ EditEsc =>
          /\ pc' = "picker" /\ exit' = "none"
          /\ selected' = selected /\ messages' = messages
          /\ committed' = committed /\ calls' = calls ]_vars

\* C15 (amended): Esc in the editor abandons the edit and makes no commit,
\* with the highlighted entry and the candidate list unchanged.  When the
\* terminal initialises again the run goes on in the picker; when that
\* termbox.Init fails the run ends with its error.  Opening the editor on an
\* entry, also after an abandoned edit, starts from the candidate's text (the
\* empty string for the custom entry) with the cursor at its end.
C15_EscAbandonsEdit ==
    [][ /\ EditEsc =>
             /\ selected' = selected /\ messages' = messages
             /\ committed' = committed /\ calls' = calls /\ commitMsg' = commitMsg
             /\ tbInit' => (pc' = "picker" /\ exit' = "none")
             /\ ~tbInit' => (pc' = "exited" /\ exit' = "fatal" /\ committed' = <<>>)
        /\ (PickerEnter /\ pc' = "editor") =>
             /\ messages' = messages
             /\ Encode(Visible(ed')) = InitialText(messages, selected)
             /\ ed'.cursorPos = ed'.len ]_vars

\* C15 witness: after an abandoned edit the editor is open again on the
\* second candidate, showing the candidate's text
C15_Witness ==
    /\ cancelled
    /\ pc = "editor"
    /\ selected = 1
    /\ Encode(Visible(ed)) = messages[2]
    /\ committed = <<>>

\* C16 (as claimed): across getUserChoice and its editMessage calls the
\* termbox.Init and termbox.Close calls strictly alternate, starting with an
\* Init, on every path: Close is never called while the terminal is not
\* initialised, Init never while it is.
C16_InitCloseAlternate == ~tbMisuse

\* C17: in the picker the highlighted index stays in 0..len(messages), the
\* last value being the custom entry: ArrowUp at 0 and ArrowDown at
\* len(messages) leave it unchanged, elsewhere they move it by one, and Enter
\* reads messages[selected] only for selected < len(messages).
C17_PickerIndexInRange ==
    [][ /\ pc' = "picker" => selected' \in 0..Len(messages')
        /\ PickerArrowUp =>
             selected' = (IF selected = 0 THEN 0 ELSE selected - 1)
        /\ PickerArrowDown =>
             selected' = (IF selected = Len(messages) THEN selected ELSE selected + 1)
        /\ (PickerEnter /\ pc' = "editor") =>
             /\ selected \in 0..Len(messages)
             /\ selected < Len(messages) => ed'.initialMsg = messages[selected + 1]
             /\ selected = Len(messages) => ed'.initialMsg = <<>> ]_vars

\* C17 witness: ArrowDown has brought the highlight to the custom entry
C17_Witness ==
    /\ pc = "picker"
    /\ Len(messages) = 3
    /\ selected = Len(messages)

\* C18: a failed `git log` does not end the run: generateCommitMessages goes
\* on with an empty reference message in the prompt and makes the API call,
\* and the outcome is that of the API call and the parse of its response.
\* (In this model the reference message is empty exactly when git log failed.)
C18_LogFailureGoesOn ==
    /\ calls["log"] = calls["api"]
    /\ (prompt # None /\ prompt[2] = <<>>) =>
         /\ prompt[1] = diff
         /\ calls["api"] = 1
         /\ LastStep.op = "generate"
         /\ LastStep.err \in {"", "api", "no content generated", "expected 3 messages"}
         /\ LastStep.err = "" => (pc = "generated" /\ Len(messages) = 3)

\* C18 witness: git log failed and three candidates were generated
C18_Witness ==
    /\ pc = "generated"
    /\ prompt # None /\ prompt[2] = <<>>
    /\ calls["log"] = 1 /\ calls["api"] = 1
    /\ Len(messages) = 3

====
